---- MODULE Spec2Model ----
(***************************************************************************)
(* GitMan: the sidebar's git-action dispatcher (SidebarProvider), the      *)
(* repository facade (GitService) and the device-flow authenticator        *)
(* (AuthService), as state machines.  Every await of the TypeScript source *)
(* is a point where a handler yields: a handler is one action up to its    *)
(* first await and one action per completion it resumes on.                *)
(***************************************************************************)
EXTENDS Integers, Sequences, FiniteSets, TLC

(* ---------------------------------------------------------------------- *)
(* Strings the code takes apart are sequences of characters.               *)
(* ---------------------------------------------------------------------- *)

RECURSIVE EscapeQuotes(_)
\* message.replace(/"/g, '\\"')
EscapeQuotes(s) ==
    IF s = <<>> THEN <<>>
    ELSE (IF Head(s) = "\"" THEN <<"\\", "\"">> ELSE <<Head(s)>>) \o EscapeQuotes(Tail(s))

\* The greatest index of character c in s, 0 when there is none.
LastIndexOf(s, c) ==
    LET hits == {i \in 1..Len(s) : s[i] = c}
    IN  IF hits = {} THEN 0 ELSE CHOOSE i \in hits : \A j \in hits : j <= i

EndsWith(s, suffix) ==
    /\ Len(s) >= Len(suffix)
    /\ SubSeq(s, Len(s) - Len(suffix) + 1, Len(s)) = suffix

StartsWith(s, prefix) ==
    /\ Len(s) >= Len(prefix)
    /\ SubSeq(s, 1, Len(prefix)) = prefix

DotGit == <<".", "g", "i", "t">>
HttpsPrefix == <<"h", "t", "t", "p", "s", ":", "/", "/">>

\* RepoNameMatch with a closing ".git" left in the name.
RepoNameMatch_KeepsDotGit(url) ==
    LET k == LastIndexOf(url, "/")
        rest == SubSeq(url, k + 1, Len(url))
    IN  IF k = 0 \/ rest = <<>> THEN [matched |-> FALSE, name |-> <<>>]
        ELSE [matched |-> TRUE, name |-> rest]

\* remoteUrl.match(/\/([^\/]+?)(\.git)?$/): the text after the last slash, less a
\* closing ".git"; no match when the url has no slash or ends with one.
RepoNameMatch(url) ==
    LET k == LastIndexOf(url, "/")
        rest == SubSeq(url, k + 1, Len(url))
    IN  IF k = 0 \/ rest = <<>> THEN [matched |-> FALSE, name |-> <<>>]
        ELSE IF EndsWith(rest, DotGit) /\ Len(rest) > Len(DotGit)
             THEN [matched |-> TRUE, name |-> SubSeq(rest, 1, Len(rest) - Len(DotGit))]
             ELSE [matched |-> TRUE, name |-> rest]

\* workspaceRoot.split(/[\\/]/).pop() || "Unknown"
FolderName(root) ==
    LET seps == {i \in 1..Len(root) : root[i] \in {"/", "\\"}}
        k == IF seps = {} THEN 0 ELSE CHOOSE i \in seps : \A j \in seps : j <= i
        last == SubSeq(root, k + 1, Len(root))
    IN  IF last = <<>> THEN <<"U", "n", "k", "n", "o", "w", "n">> ELSE last

\* The least index i with s[i] = "@" (the lazy .*? of /https:\/\/.*?@/), 0 if none.
FirstAt(s) ==
    LET hits == {i \in (Len(HttpsPrefix) + 1)..Len(s) : s[i] = "@"}
    IN  IF hits = {} THEN 0 ELSE CHOOSE i \in hits : \A j \in hits : i <= j

\* remoteUrl.replace(/https:\/\/.*?@/, "https://") for a url that starts with https://
StripCredential(url) ==
    LET k == FirstAt(url)
    IN  IF k = 0 THEN url ELSE HttpsPrefix \o SubSeq(url, k + 1, Len(url))

\* cleanUrl.replace("https://", `https://${token}@`)
EmbedToken(cleanUrl, token) ==
    HttpsPrefix \o token \o <<"@">> \o SubSeq(cleanUrl, Len(HttpsPrefix) + 1, Len(cleanUrl))

(* ---------------------------------------------------------------------- *)
(* Values.                                                                 *)
(* ---------------------------------------------------------------------- *)

\* JavaScript's undefined, and a string value (its characters).
Undef == [t |-> "undefined"]
Str(s) == [t |-> "string", s |-> s]
\* if (v): undefined and the empty string are falsy.
Truthy(v) == v.t = "string" /\ v.s # <<>>

\* A string literal of the code, and a text the code received (its characters).
Lit(s) == [lit |-> s]
Chars(c) == [chars |-> c]
\* The text of `${pre}${e.message}`.
Prefixed(pre, text) == [pre |-> pre, rest |-> text]

\* The payload of a git-action message: absent, or an object whose fields
\* message, url and name are each undefined or a string.
NoPayload == [t |-> "undefined"]
Obj(m, u, n) == [t |-> "object", message |-> m, url |-> u, name |-> n]
\* payload && payload.<field>
HasField(payload, f) == payload.t = "object" /\ Truthy(payload[f])

SomeMessage == <<"f", "i", "x", " ", "\"", "a", "\"">>
SomeUrl == <<"h", "t", "t", "p", "s", ":", "/", "/", "h", "/", "o", "/", "r", ".", "g", "i", "t">>
SomeBranch == <<"d", "e", "v">>
FastPushMessage == <<"F", "a", "s", "t", " ", "P", "u", "s", "h", ":", " ", "A", "u", "t", "o", "-", "c", "o", "m", "m", "i", "t">>

Payloads ==
    {NoPayload, Obj(Undef, Undef, Undef)}
        \cup {Obj(Str(m), Undef, Undef) : m \in {<<>>, SomeMessage}}
        \cup {Obj(Undef, Str(u), Undef) : u \in {<<>>, SomeUrl}}
        \cup {Obj(Undef, Undef, Str(n)) : n \in {<<>>, SomeBranch}}

\* The cases of handleGitAction's switch, and a name outside them.
GitActions ==
    {"status", "push", "pull", "fetch", "commit", "fast-push", "stash", "set-remote",
     "create-branch", "delete-branch", "switch-branch", "merge-branch"}
ActionNames == GitActions \cup {"rebase"}

\* The payload field an action reads, "" when it reads none.
RequiredField(action) ==
    CASE action = "commit" -> "message"
      [] action = "set-remote" -> "url"
      [] action \in {"create-branch", "delete-branch", "switch-branch", "merge-branch"} -> "name"
      [] OTHER -> ""

\* throw new Error("... required")
RequiredMessage(action) ==
    CASE action = "commit" -> Lit("Commit message required")
      [] action = "set-remote" -> Lit("Remote URL required")
      [] OTHER -> Lit("Branch name required")

\* A command line handed to cp.exec: the fixed words and the interpolated text.
Cmd(words, arg) == [words |-> words, arg |-> arg]

\* What a child process can answer: stdout (trimmed) on exit 0, else stderr || err.message.
Ok(out) == [ok |-> TRUE, out |-> out]
Failed(msg) == [ok |-> FALSE, out |-> msg]
SomeStderr == <<"f", "a", "t", "a", "l">>
SomeStdout == <<"o", "k">>
OriginUrls ==
    {<<"h", "t", "t", "p", "s", ":", "/", "/", "u", "@", "h", "/", "o", "/", "r", ".", "g", "i", "t">>,
     <<"s", "s", "h", ":", "/", "/", "h", "/", "o", "/">>,
     <<"h", "t", "t", "p", "s", ":", "/", "/", "h", "/", "o", "/", "q", "@", "2">>}
Replies(cmd) ==
    {Failed(SomeStderr)} \cup
    CASE cmd.words = "git status --short" -> {Ok(<<>>), Ok(<<"M", " ", "f">>)}
      [] cmd.words = "git rev-parse --abbrev-ref HEAD" -> {Ok(<<"m", "a", "i", "n">>)}
      [] cmd.words = "git remote -v" ->
            {Ok(<<>>),
             Ok(<<[name |-> <<"o", "r", "i", "g", "i", "n">>, url |-> SomeUrl, dir |-> "fetch"],
                  [name |-> <<"o", "r", "i", "g", "i", "n">>, url |-> SomeUrl, dir |-> "push"]>>)}
      [] cmd.words = "git remote get-url origin" -> {Ok(u) : u \in OriginUrls}
      [] OTHER -> {Ok(<<>>), Ok(SomeStdout)}

NoWorkspaceError == Lit("No workspace folder open")

(* ---------------------------------------------------------------------- *)
(* State.                                                                  *)
(* ---------------------------------------------------------------------- *)

VARIABLES
    workspaceRoot,  \* GitService.workspaceRoot: Undef or Str(path)
    config,         \* the gitHelper configuration: apiProvider, apiBaseUrl, modelName
    lastSave,       \* the last save-settings message handled, and the stores before it
    secrets,        \* context.secrets: gitHelper.apiKey and gitHelper.githubPat
    currentUser,    \* SidebarProvider.currentUser
    view,           \* the webview's visible view
    tasks,          \* the invocations of handleGitAction
    refreshes,      \* the runs of refreshStats
    attempts        \* the invocations of handleDeviceFlowLogin

vars == <<workspaceRoot, config, lastSave, secrets, currentUser, view, tasks, refreshes, attempts>>

MaxTasks == 2
TaskIds == 1..MaxTasks
RefreshIds == 1..MaxTasks

\* The configuration before anything was saved, and no save-settings handled yet.
DefaultConfig == [apiProvider |-> "", apiBaseUrl |-> "", modelName |-> ""]
NoSave == [t |-> "none"]

NoReport == [kind |-> "none"]
FreeTask ==
    [pc |-> "free", action |-> "", payload |-> NoPayload, cmds |-> <<>>,
     replies |-> <<>>, report |-> NoReport, refresh |-> 0]

NoUser == [t |-> "null"]
GuestUser == [t |-> "user", name |-> "Guest", email |-> "Not logged in", token |-> ""]
NoStats == [t |-> "none"]
FreeRefresh ==
    [pc |-> "free", owner |-> <<>>, cmds |-> <<>>, replies |-> <<>>, profile |-> "none",
     fetch |-> <<>>,
     branch |-> Undef, remote |-> Undef,
     status |-> Undef, repoName |-> Undef, repoPath |-> Undef, pat |-> "",
     user |-> GuestUser, posted |-> <<>>]

(* ---------------------------------------------------------------------- *)
(* GitService.                                                             *)
(* ---------------------------------------------------------------------- *)

\* The command line each facade operation builds.
StatusCmd == Cmd("git status --short", <<>>)
BranchCmd == Cmd("git rev-parse --abbrev-ref HEAD", <<>>)
RemoteCmd == Cmd("git remote -v", <<>>)
GetUrlCmd == Cmd("git remote get-url origin", <<>>)
AddAllCmd == Cmd("git add .", <<>>)
PushCmd == Cmd("git push", <<>>)
CommitCmd(message) == Cmd("git commit -m", EscapeQuotes(message))
SetUrlCmd(url) == Cmd("git remote set-url origin", url)
AddRemoteCmd(url) == Cmd("git remote add origin", url)

\* The one command of an action that is a single call of exec.
SimpleCmd(action, payload) ==
    CASE action = "push" -> PushCmd
      [] action = "pull" -> Cmd("git pull", <<>>)
      [] action = "fetch" -> Cmd("git fetch", <<>>)
      [] action = "stash" -> Cmd("git stash", <<>>)
      [] action = "commit" -> CommitCmd(payload.message.s)
      [] action = "create-branch" -> Cmd("git checkout -b", payload.name.s)
      [] action = "delete-branch" -> Cmd("git branch -D", payload.name.s)
      [] action = "switch-branch" -> Cmd("git checkout", payload.name.s)
      [] action = "merge-branch" -> Cmd("git merge", payload.name.s)

\* The label of the await an action starts at.
FirstStep(action) ==
    CASE action = "status" -> "getStatus"
      [] action = "fast-push" -> "addAll"
      [] action = "set-remote" -> "probe"
      [] OTHER -> "exec"

FirstCmd(action, payload) ==
    CASE action = "status" -> StatusCmd
      [] action = "fast-push" -> AddAllCmd
      [] action = "set-remote" -> GetUrlCmd
      [] OTHER -> SimpleCmd(action, payload)

\* remotes.match(/origin\s+(.*?)\s+\(fetch\)/): the url of the first fetch line of a
\* remote whose name ends with "origin".
RemoteMatch(lines) ==
    LET hits == {i \in 1..Len(lines) :
                    /\ EndsWith(lines[i].name, <<"o", "r", "i", "g", "i", "n">>)
                    /\ lines[i].dir = "fetch"}
    IN  IF hits = {} THEN Lit("No origin")
        ELSE Chars(lines[CHOOSE i \in hits : \A j \in hits : i <= j].url)

(* ---------------------------------------------------------------------- *)
(* SidebarProvider.handleGitAction.                                        *)
(* ---------------------------------------------------------------------- *)

\* The end of the try block: showInformationMessage, then this.refreshStats().
Succeed(t, result) ==
    [t EXCEPT !.pc = "returned",
              !.report = [kind |-> "success", action |-> t.action, text |-> result],
              !.refresh = 1]

\* Fail with the error leaving handleGitAction unreported.
Fail_Escapes(t, message) == [t EXCEPT !.pc = "returned"]

\* The catch block: showErrorMessage and nothing else.
Fail(t, message) ==
    [t EXCEPT !.pc = "returned",
              !.report = [kind |-> "failure", action |-> t.action, text |-> message]]

\* exec with a workspace: the child process is spawned and the handler awaits it.
Spawn(t, label, cmd) == [t EXCEPT !.pc = label, !.cmds = Append(@, cmd)]

\* setRemote's inner catch: exec(`git remote add origin ${url}`), whose own
\* failure the outer catch rethrows as "Failed to set remote: ...".
CallAdd(t) ==
    IF workspaceRoot = Undef
    THEN Fail(t, Prefixed("Failed to set remote: ", NoWorkspaceError))
    ELSE Spawn(t, "add", AddRemoteCmd(t.payload.url.s))

\* OnThrow with the failure of fast-push's commit swallowed: the push still goes out.
OnThrow_CommitSwallowed(t, label, message) ==
    CASE label = "getStatus" -> Succeed(t, Lit("Error getting status"))
      [] label \in {"probe", "setUrl"} -> CallAdd(t)
      [] label = "add" -> Fail(t, Prefixed("Failed to set remote: ", message))
      [] label = "fpCommit" /\ workspaceRoot # Undef -> Spawn(t, "fpPush", PushCmd)
      [] OTHER -> Fail(t, message)

\* OnThrow with getStatus answering "Clean" when its command failed.
OnThrow_StatusErrorClean(t, label, message) ==
    CASE label = "getStatus" -> Succeed(t, Lit("Clean"))
      [] label \in {"probe", "setUrl"} -> CallAdd(t)
      [] label = "add" -> Fail(t, Prefixed("Failed to set remote: ", message))
      [] OTHER -> Fail(t, message)

\* An exec awaited at `label` rejected with `message`: the catch that takes it.
OnThrow(t, label, message) ==
    CASE label = "getStatus" -> Succeed(t, Lit("Error getting status"))
      [] label \in {"probe", "setUrl"} -> CallAdd(t)
      [] label = "add" -> Fail(t, Prefixed("Failed to set remote: ", message))
      [] OTHER -> Fail(t, message)

\* GitService.exec: throws before spawning anything when no workspace is open.
Call(t, label, cmd) ==
    IF workspaceRoot = Undef THEN OnThrow(t, label, NoWorkspaceError)
    ELSE Spawn(t, label, cmd)

\* MissingField testing the field for undefined only: an empty string passes.
MissingField_EmptyPasses(action, payload) ==
    /\ RequiredField(action) # ""
    /\ ~(payload.t = "object" /\ payload[RequiredField(action)].t = "string")

\* Whether the case of `action` throws "... required" instead of calling the facade.
MissingField(action, payload) ==
    /\ RequiredField(action) # ""
    /\ ~HasField(payload, RequiredField(action))

\* handleGitAction from its entry to its first await (or to its return).
Begin(action, payload) ==
    LET t == [FreeTask EXCEPT !.action = action, !.payload = payload]
    IN  IF action \notin GitActions THEN Succeed(t, Lit(""))
        ELSE IF MissingField(action, payload) THEN Fail(t, RequiredMessage(action))
        ELSE IF action = "status" /\ workspaceRoot = Undef THEN Succeed(t, Lit("No Repo"))
        ELSE Call(t, FirstStep(action), FirstCmd(action, payload))

\* handleGitAction resumed by the answer of the command it awaits.
OnReply(t, reply) ==
    IF ~reply.ok THEN OnThrow(t, t.pc, Chars(reply.out))
    ELSE CASE t.pc = "getStatus" ->
                Succeed(t, IF reply.out # <<>> THEN Chars(reply.out) ELSE Lit("Clean"))
           [] t.pc = "addAll" -> Call(t, "fpCommit", CommitCmd(FastPushMessage))
           [] t.pc = "fpCommit" -> Call(t, "fpPush", PushCmd)
           [] t.pc = "probe" -> Call(t, "setUrl", SetUrlCmd(t.payload.url.s))
           [] t.pc \in {"setUrl", "add"} -> Succeed(t, Lit("Remote URL updated"))
           [] OTHER -> Succeed(t, Chars(reply.out))

(* ---------------------------------------------------------------------- *)
(* SidebarProvider.refreshStats.                                           *)
(* ---------------------------------------------------------------------- *)

\* makeRequest: the promise rejects on a socket error and on a body JSON.parse
\* refuses, and resolves with the parsed body otherwise, whatever the status.
MakeRequest(reply) ==
    IF reply.kind = "json" THEN [ok |-> TRUE, value |-> reply.body, error |-> Lit("")]
    ELSE [ok |-> FALSE, value |-> reply.body,
          error |-> IF reply.kind = "transport" THEN Lit("socket hang up")
                    ELSE Lit("Unexpected token < in JSON")]

\* The provider's profile of the account a token belongs to (no public email), and
\* no profile.
ProfileOf(token) == [login |-> token, name |-> "", email |-> ""]
NoViewer == [login |-> "", name |-> "", email |-> ""]

\* What can come back for the GraphQL query of getUserProfile: a socket error, a
\* body with errors, a body without data (401 "Bad credentials"), a viewer.
GraphQLBody(errors, viewer) == [errors |-> errors, viewer |-> viewer]
PrimaryReplies(token) ==
    {[kind |-> "transport", status |-> 0, body |-> GraphQLBody("", NoViewer)],
     [kind |-> "json", status |-> 200, body |-> GraphQLBody("Bad query", NoViewer)],
     [kind |-> "json", status |-> 401, body |-> GraphQLBody("", NoViewer)],
     [kind |-> "json", status |-> 200, body |-> GraphQLBody("", ProfileOf(token))],
     [kind |-> "json", status |-> 200,
      body |-> GraphQLBody("", [ProfileOf(token) EXCEPT !.email = "e@x"])]}

\* What can come back for GET /user/emails: a socket error, a body that is no array,
\* an array without a primary entry, an array with one.
EmailsBody(isArray, entries) == [isArray |-> isArray, entries |-> entries]
EmailsWithPrimary ==
    [kind |-> "json", status |-> 200,
     body |-> EmailsBody(TRUE, <<[email |-> "s@x", primary |-> FALSE],
                                 [email |-> "p@x", primary |-> TRUE]>>)]
EmailReplies ==
    {[kind |-> "transport", status |-> 0, body |-> EmailsBody(FALSE, <<>>)],
     [kind |-> "json", status |-> 403, body |-> EmailsBody(FALSE, <<>>)],
     [kind |-> "json", status |-> 200,
      body |-> EmailsBody(TRUE, <<[email |-> "s@x", primary |-> FALSE]>>)],
     EmailsWithPrimary}

\* The try block around the email request: emails.find(e => e.primary) gives the
\* viewer its email; anything else leaves the viewer as it is.
WithPrimaryEmail(viewer, reply) ==
    LET res == MakeRequest(reply)
        hits == {j \in 1..Len(res.value.entries) : res.value.entries[j].primary}
    IN  IF res.ok /\ res.value.isArray /\ hits # {}
        THEN [viewer EXCEPT !.email =
                    res.value.entries[CHOOSE j \in hits : \A k \in hits : j <= k].email]
        ELSE viewer

\* A fetch that threw, and one that returned a viewer, with the requests it issued
\* and the answers it got.
Thrown(reqs, resps) == [ok |-> FALSE, profile |-> NoViewer, reqs |-> reqs, resps |-> resps]
Returned(viewer, reqs, resps) == [ok |-> TRUE, profile |-> viewer, reqs |-> reqs, resps |-> resps]

\* GetUserProfile with a failing email request failing the fetch.
GetUserProfile_EmailsFatal(primary, emails) ==
    LET res == MakeRequest(primary)
    IN  IF ~res.ok \/ res.value.errors # "" \/ res.value.viewer = NoViewer
        THEN Thrown(<<"graphql">>, <<primary>>)
        ELSE IF res.value.viewer.email # ""
        THEN Returned(res.value.viewer, <<"graphql">>, <<primary>>)
        ELSE IF ~MakeRequest(emails).ok
        THEN Thrown(<<"graphql", "emails">>, <<primary, emails>>)
        ELSE Returned(WithPrimaryEmail(res.value.viewer, emails),
                      <<"graphql", "emails">>, <<primary, emails>>)

\* getUserProfile, given the answers its requests get: a rejected query, a body
\* with errors and a body without data throw; a viewer without email is looked up
\* in the email list.
GetUserProfile(primary, emails) ==
    LET res == MakeRequest(primary)
    IN  IF ~res.ok \/ res.value.errors # "" \/ res.value.viewer = NoViewer
        THEN Thrown(<<"graphql">>, <<primary>>)
        ELSE IF res.value.viewer.email # ""
        THEN Returned(res.value.viewer, <<"graphql">>, <<primary>>)
        ELSE Returned(WithPrimaryEmail(res.value.viewer, emails),
                      <<"graphql", "emails">>, <<primary, emails>>)

\* The ways getUserProfile(token) can settle.
ProfileReplies(token) ==
    {GetUserProfile(primary, emails) : primary \in PrimaryReplies(token), emails \in EmailReplies}
\* Two of them: 401 "Bad credentials", and a viewer with a public email.
BriefProfileReplies(token) ==
    {GetUserProfile(primary, EmailsWithPrimary) :
        primary \in {p \in PrimaryReplies(token) :
                        p.status = 401 \/ p.body.viewer = [ProfileOf(token) EXCEPT !.email = "e@x"]}}

\* The record handleDeviceFlowLogin and refreshStats build from a profile.
UserOf(profile, token) ==
    [t |-> "user",
     name |-> IF profile.name # "" THEN profile.name ELSE profile.login,
     email |-> IF profile.email # "" THEN profile.email ELSE "No public email",
     token |-> token]

\* vscode.authentication.getSession(..., {createIfNone: false}): a session's
\* account label, "" for no session or a rejection (swallowed by the catch).
SessionReplies == {"", "octo"}

\* postMessage({type: "update-stats", ...})
Post(r) ==
    [r EXCEPT !.pc = "done",
              !.posted = Append(@, [branch |-> r.branch, remote |-> r.remote,
                                    status |-> r.status, repoName |-> r.repoName,
                                    repoPath |-> r.repoPath, user |-> r.user])]

\* From "let user = Guest" to the next await.
UserPhase(r) ==
    IF currentUser # NoUser THEN Post([r EXCEPT !.user = currentUser])
    ELSE IF secrets.githubPat # "" THEN [r EXCEPT !.pc = "profile", !.pat = secrets.githubPat]
    ELSE [r EXCEPT !.pc = "session"]

RSpawn(r, label, cmd) == [r EXCEPT !.pc = label, !.cmds = Append(@, cmd)]

\* refreshStats from its entry to its first await.
RefreshBegin(owner) ==
    LET r == [FreeRefresh EXCEPT !.owner = owner]
    IN  IF workspaceRoot = Undef
        THEN UserPhase([r EXCEPT !.branch = Lit("No Repo"), !.remote = Lit("No Repo"),
                                 !.status = Lit("No Repo"), !.repoName = Lit("No Repo"),
                                 !.repoPath = Lit("No workspace open")])
        ELSE RSpawn(r, "branch", BranchCmd)

\* getRepoName after its exec settled.
RepoName(reply) ==
    IF reply.ok /\ RepoNameMatch(reply.out).matched
    THEN Chars(RepoNameMatch(reply.out).name)
    ELSE Chars(FolderName(workspaceRoot.s))

\* refreshStats resumed by the answer of the git query it awaits.
RefreshOnReply(r, reply) ==
    CASE r.pc = "branch" ->
            RSpawn([r EXCEPT !.branch = IF reply.ok THEN Chars(reply.out) ELSE Lit("Unknown")],
                   "remote", RemoteCmd)
      [] r.pc = "remote" ->
            RSpawn([r EXCEPT !.remote = IF reply.ok THEN RemoteMatch(reply.out) ELSE Lit("Unknown")],
                   "status", StatusCmd)
      [] r.pc = "status" ->
            RSpawn([r EXCEPT !.status =
                        IF ~reply.ok THEN Lit("Error getting status")
                        ELSE IF reply.out # <<>> THEN Chars(reply.out) ELSE Lit("Clean")],
                   "repoName", GetUrlCmd)
      [] r.pc = "repoName" ->
            UserPhase([r EXCEPT !.repoName = RepoName(reply),
                                !.repoPath = Chars(workspaceRoot.s)])

(* ---------------------------------------------------------------------- *)
(* AuthService.                                                            *)
(* ---------------------------------------------------------------------- *)

\* A number the code reads from a response that does not carry it (undefined, and
\* NaN once added to).
NoNumber == 0 - 1

MaxAttempts == 2
MaxPolls == 3
AttemptIds == 1..MaxAttempts

\* What the provider can put in a device-code response.
Intervals == {1, 2}
ExpiresIns == {3}
\* The interval a slow_down response carries.
SlowIntervals == {5}
Tokens == {"T1", "T2"}
\* The token the provider issues for the device code of attempt a.
IssuedToken(a) == IF a = 1 THEN "T1" ELSE "T2"
TokenChars(token) == IF token = "T1" THEN <<"T", "1">> ELSE <<"T", "2">>

\* The JSON body of a device-code response, and of an error answer.
DeviceBody(interval, expiresIn) ==
    [device_code |-> "D", user_code |-> "U", verification_uri |-> "V",
     expires_in |-> expiresIn, interval |-> interval, error |-> ""]
DeviceErrorBody ==
    [device_code |-> "", user_code |-> "", verification_uri |-> "",
     expires_in |-> NoNumber, interval |-> NoNumber, error |-> "Not Found"]
\* No parsed body: the request failed, or what came back was not JSON.
NoDeviceBody == [DeviceErrorBody EXCEPT !.error = ""]

\* What can come back for the device-code request: a socket error, a body that is
\* not JSON, or a JSON body, each with the HTTP status it came with (0: none).
InitReplies ==
    {[kind |-> "transport", status |-> 0, body |-> NoDeviceBody],
     [kind |-> "nonjson", status |-> 502, body |-> NoDeviceBody],
     [kind |-> "json", status |-> 404, body |-> DeviceErrorBody]}
        \cup {[kind |-> "json", status |-> 200, body |-> DeviceBody(i, e)] :
                i \in Intervals, e \in ExpiresIns}
BriefInitReplies ==
    {[kind |-> "transport", status |-> 0, body |-> NoDeviceBody],
     [kind |-> "json", status |-> 200, body |-> DeviceBody(2, 3)]}

\* The JSON body of a token response.
TokenBody(token, error, interval, description) ==
    [access_token |-> token, error |-> error, interval |-> interval,
     error_description |-> description]
JsonReply(body) == [kind |-> "json", status |-> 200, body |-> body]
PendingReply == JsonReply(TokenBody("", "authorization_pending", NoNumber, ""))
ExpiredReply == JsonReply(TokenBody("", "expired_token", NoNumber, ""))
TokenReply(token) == JsonReply(TokenBody(token, "", NoNumber, ""))
TransportFailure == [kind |-> "transport", status |-> 0, body |-> TokenBody("", "", NoNumber, "")]
\* Every kind of answer to a token request, the token being one of `tokens`.
TokenReplies(tokens) ==
    {TransportFailure,
     [kind |-> "nonjson", status |-> 502, body |-> TokenBody("", "", NoNumber, "")],
     PendingReply, ExpiredReply}
        \cup {TokenReply(tok) : tok \in tokens}
        \cup {JsonReply(TokenBody("", "slow_down", i, "")) : i \in SlowIntervals}
        \cup {JsonReply(TokenBody("", "access_denied", NoNumber, "")),
              JsonReply(TokenBody("", "incorrect_client_credentials", NoNumber, "bad client"))}
\* The answers of a provider that only waits, issues the token or lets the code expire.
BriefTokenReplies(tokens) == {PendingReply, ExpiredReply} \cup {TokenReply(tok) : tok \in tokens}

\* setTimeout(poll, (n + 1) * 1000), in seconds; NaN fires at once.
Delay(n) == IF n = NoNumber THEN 0 ELSE n + 1

\* PendingDelay without the one-second buffer.
PendingDelay_NoBuffer(interval, body) == IF interval = NoNumber THEN 0 ELSE interval

\* The delay of the reschedule after authorization_pending.
PendingDelay(interval, body) == Delay(interval)

\* The delay of the reschedule after slow_down.
SlowDownDelay(interval, body) == Delay(body.interval)

\* Classify with access_denied taken for one more "not yet": the loop polls on.
Classify_DeniedRetries(interval, body) ==
    IF body.access_token # "" THEN [act |-> "resolve", token |-> body.access_token]
    ELSE IF body.error \in {"authorization_pending", "access_denied"}
         THEN [act |-> "reschedule", delay |-> PendingDelay(interval, body)]
    ELSE IF body.error = "slow_down"
         THEN [act |-> "reschedule", delay |-> SlowDownDelay(interval, body)]
    ELSE IF body.error = "expired_token" THEN [act |-> "reject", error |-> Lit("Token expired")]
    ELSE [act |-> "reject",
          error |-> IF body.error_description # "" THEN Lit(body.error_description)
                    ELSE Lit("Unknown error")]

\* poll's if-chain over a token response.
Classify(interval, body) ==
    IF body.access_token # "" THEN [act |-> "resolve", token |-> body.access_token]
    ELSE IF body.error = "authorization_pending"
         THEN [act |-> "reschedule", delay |-> PendingDelay(interval, body)]
    ELSE IF body.error = "slow_down"
         THEN [act |-> "reschedule", delay |-> SlowDownDelay(interval, body)]
    ELSE IF body.error = "expired_token" THEN [act |-> "reject", error |-> Lit("Token expired")]
    ELSE IF body.error = "access_denied" THEN [act |-> "reject", error |-> Lit("Access denied")]
    ELSE [act |-> "reject",
          error |-> IF body.error_description # "" THEN Lit(body.error_description)
                    ELSE Lit("Unknown error")]

NoSnapshot == [t |-> "none"]
FreeAttempt ==
    [pc |-> "free", init |-> <<>>, interval |-> NoNumber, expiresIn |-> NoNumber,
     requests |-> 0, resps |-> <<>>, delays |-> <<>>, outcome |-> "none", token |-> "",
     shown |-> 0, stored |-> 0, messages |-> <<>>, notified |-> <<>>, cmds |-> <<>>,
     gitReplies |-> <<>>, profile |-> "none",
     remoteResult |-> Lit(""), cancelledAt |-> NoSnapshot, supersededAt |-> NoSnapshot,
     loggedOutAt |-> NoSnapshot]

\* What an attempt has done that the outside can see.
Effects(at) ==
    [t |-> "snapshot", requests |-> at.requests, stored |-> at.stored,
     messages |-> at.messages, notified |-> at.notified]

(* ---------------------------------------------------------------------- *)
(* The dispatcher's actions.                                               *)
(* ---------------------------------------------------------------------- *)

SomeRoot == <<"/", "w", "/", "p", "r", "o", "j">>
SomeToken == "T1"

TaskAwaits == {"getStatus", "addAll", "fpCommit", "fpPush", "probe", "setUrl", "add", "exec"}
RefreshAwaits == {"branch", "remote", "status", "repoName"}
TaskRunning(i) == tasks[i].pc \in TaskAwaits
RefreshRunning(r) == refreshes[r].pc \notin {"free", "done"}
AttemptRunning(a) == attempts[a].pc \notin {"free", "done"}
Idle ==
    /\ \A i \in TaskIds : ~TaskRunning(i)
    /\ \A r \in RefreshIds : ~RefreshRunning(r)
    /\ \A a \in AttemptIds : ~AttemptRunning(a)

\* The slot a new run of refreshStats takes.
RefreshSlots == {r \in RefreshIds : ~RefreshRunning(r)}
NewRefresh == CHOOSE r \in RefreshSlots : \A q \in RefreshSlots : r <= q

\* this.refreshStats(), not awaited: the run starts and the caller goes on.
StartRefresh(owner) ==
    /\ RefreshSlots # {}
    /\ refreshes' = [refreshes EXCEPT ![NewRefresh] = RefreshBegin(owner)]

\* Task i moves to t, starting a run of refreshStats if t called it.
TaskStep(i, t) ==
    /\ tasks' = [tasks EXCEPT ![i] = t]
    /\ IF t.refresh = 1 THEN StartRefresh(<<"task", i>>) ELSE UNCHANGED refreshes
    /\ UNCHANGED <<workspaceRoot, config, lastSave, secrets, currentUser, view, attempts>>

\* onDidReceiveMessage, case "git-action": handleGitAction(action, payload).
Dispatch(i, action, payload) ==
    /\ ~TaskRunning(i)
    /\ TaskStep(i, Begin(action, payload))

\* A git-action message sent while no handler is on the stack or suspended.
Quiet ==
    /\ \A i \in TaskIds : tasks[i] = FreeTask
    /\ \A r \in RefreshIds : refreshes[r] = FreeRefresh
    /\ \A a \in AttemptIds : attempts[a] = FreeAttempt
GitAction ==
    /\ Quiet
    /\ \E action \in ActionNames, payload \in Payloads : Dispatch(1, action, payload)

\* The frames of the handlers that have finished are dropped.
Collect ==
    /\ Idle
    /\ ~Quiet
    /\ tasks' = [i \in TaskIds |-> FreeTask]
    /\ refreshes' = [r \in RefreshIds |-> FreeRefresh]
    /\ attempts' = [a \in AttemptIds |-> FreeAttempt]
    /\ UNCHANGED <<workspaceRoot, config, lastSave, secrets, currentUser, view>>

\* One failure and one success of a command.
BriefReplies(cmd) ==
    {Failed(SomeStderr)} \cup
    (IF cmd.words = "git remote get-url origin" THEN {Ok(SomeUrl)} ELSE {Ok(<<>>)})

\* The callback of cp.exec for the command task i awaits.
ExecReturn ==
    \E i \in TaskIds :
        /\ TaskRunning(i)
        /\ \E reply \in Replies(tasks[i].cmds[Len(tasks[i].cmds)]) :
                TaskStep(i, OnReply([tasks[i] EXCEPT !.replies = Append(@, reply)], reply))
ExecReturnBrief ==
    \E i \in TaskIds :
        /\ TaskRunning(i)
        /\ \E reply \in BriefReplies(tasks[i].cmds[Len(tasks[i].cmds)]) :
                TaskStep(i, OnReply([tasks[i] EXCEPT !.replies = Append(@, reply)], reply))

\* refreshStats resumed by `reply`, the answer of the git query run r awaits.
RefreshExecReturnWith(r, reply) ==
    /\ refreshes' = [refreshes EXCEPT ![r] =
            RefreshOnReply([refreshes[r] EXCEPT !.replies = Append(@, reply)], reply)]
    /\ UNCHANGED <<workspaceRoot, config, lastSave, secrets, currentUser, view, tasks, attempts>>

\* The callback of cp.exec for the git query a run of refreshStats awaits.
RefreshExecReturn ==
    \E r \in RefreshIds :
        /\ refreshes[r].pc \in RefreshAwaits
        /\ \E reply \in Replies(refreshes[r].cmds[Len(refreshes[r].cmds)]) :
                RefreshExecReturnWith(r, reply)
RefreshExecReturnBrief ==
    \E r \in RefreshIds :
        /\ refreshes[r].pc \in RefreshAwaits
        /\ \E reply \in BriefReplies(refreshes[r].cmds[Len(refreshes[r].cmds)]) :
                RefreshExecReturnWith(r, reply)

\* refreshStats resumed by getUserProfile(pat) settling as `reply`: the profile
\* becomes currentUser; a failure is logged, and the session is asked if currentUser
\* is still unset.
RefreshProfileReturnWith(r, reply) ==
    /\ IF reply.ok
       THEN /\ currentUser' = UserOf(reply.profile, refreshes[r].pat)
            /\ refreshes' = [refreshes EXCEPT ![r] =
                   Post([refreshes[r] EXCEPT !.profile = "ok", !.fetch = <<reply>>,
                           !.user = UserOf(reply.profile, refreshes[r].pat)])]
       ELSE /\ UNCHANGED currentUser
            /\ refreshes' = [refreshes EXCEPT ![r] =
                   IF currentUser = NoUser
                   THEN [refreshes[r] EXCEPT !.pc = "session", !.profile = "failed",
                                             !.fetch = <<reply>>]
                   ELSE Post([refreshes[r] EXCEPT !.profile = "failed",
                                                  !.fetch = <<reply>>])]
    /\ UNCHANGED <<workspaceRoot, config, lastSave, secrets, view, tasks, attempts>>

RefreshProfileReturn ==
    \E r \in RefreshIds :
        /\ refreshes[r].pc = "profile"
        /\ \E reply \in ProfileReplies(refreshes[r].pat) : RefreshProfileReturnWith(r, reply)
RefreshProfileReturnBrief ==
    \E r \in RefreshIds :
        /\ refreshes[r].pc = "profile"
        /\ \E reply \in BriefProfileReplies(refreshes[r].pat) : RefreshProfileReturnWith(r, reply)

\* refreshStats resumed by getSession: a session's label names the user.
RefreshSessionReturn ==
    \E r \in RefreshIds :
        /\ refreshes[r].pc = "session"
        /\ \E label \in SessionReplies :
                refreshes' = [refreshes EXCEPT ![r] =
                    Post(IF label # ""
                         THEN [refreshes[r] EXCEPT !.user.name = label,
                                                   !.user.email = "Logged in via GitHub"]
                         ELSE refreshes[r])]
        /\ UNCHANGED <<workspaceRoot, config, lastSave, secrets, currentUser, view, tasks, attempts>>

(* ---------------------------------------------------------------------- *)
(* SidebarProvider.handleDeviceFlowLogin and the webview's device-code view.*)
(* ---------------------------------------------------------------------- *)

\* Catch without the show-setup notification.
Catch_NoFallback(at, error) ==
    [at EXCEPT !.pc = "done", !.outcome = "error",
               !.messages = Append(@, [kind |-> "error",
                                       text |-> Prefixed("Device Flow Login failed: ", error)])]

\* The catch block: showErrorMessage, then postMessage show-setup.
Catch(at, error) ==
    [at EXCEPT !.pc = "done", !.outcome = "error",
               !.messages = Append(@, [kind |-> "error",
                                       text |-> Prefixed("Device Flow Login failed: ", error)]),
               !.notified = Append(@, "show-setup")]

\* After the await of initiateDeviceFlow: show-device-code is posted and
\* pollForToken issues its first token request.
OnInitiated(at, reply) ==
    LET res == MakeRequest(reply)
        at0 == [at EXCEPT !.init = <<reply>>]
    IN  IF ~res.ok THEN Catch(at0, res.error)
        ELSE [at0 EXCEPT !.interval = res.value.interval,
                         !.expiresIn = res.value.expires_in,
                         !.shown = @ + 1,
                         !.requests = @ + 1,
                         !.pc = "polling"]

\* OnToken without the write to the secret store.
OnToken_NotStored(at, token) ==
    LET at1 == [at EXCEPT !.outcome = "token", !.token = token,
                          !.messages = Append(@, [kind |-> "info",
                                text |-> Lit("Successfully logged in with GitHub!")])]
    IN  IF workspaceRoot = Undef
        THEN [at1 EXCEPT !.pc = "profile", !.remoteResult = Lit("Failed to update remote URL")]
        ELSE [at1 EXCEPT !.pc = "getUrl", !.cmds = Append(@, GetUrlCmd)]

\* From resolve(token) to the await inside updateRemoteUrlWithToken: the token goes
\* to the secret store, the success message is shown, the remote's url is asked for.
OnToken(at, token) ==
    LET at1 == [at EXCEPT !.outcome = "token", !.token = token, !.stored = @ + 1,
                          !.messages = Append(@, [kind |-> "info",
                                text |-> Lit("Successfully logged in with GitHub!")])]
    IN  IF workspaceRoot = Undef
        THEN [at1 EXCEPT !.pc = "profile", !.remoteResult = Lit("Failed to update remote URL")]
        ELSE [at1 EXCEPT !.pc = "getUrl", !.cmds = Append(@, GetUrlCmd)]

\* OnPoll with a rejection that also schedules the next poll.
OnPoll_RejectReschedules(at, reply) ==
    LET res == MakeRequest(reply)
        at0 == [at EXCEPT !.resps = Append(@, reply)]
        c == Classify(at.interval, res.value)
    IN  IF ~res.ok THEN Catch(at0, res.error)
        ELSE IF c.act = "resolve" THEN OnToken(at0, c.token)
        ELSE IF c.act = "reschedule"
             THEN [at0 EXCEPT !.pc = "timer", !.delays = Append(@, c.delay)]
        ELSE Catch([at0 EXCEPT !.delays = Append(@, at.interval + 1)], c.error)

\* poll resumed by the answer to its token request.
OnPoll(at, reply) ==
    LET res == MakeRequest(reply)
        at0 == [at EXCEPT !.resps = Append(@, reply)]
        c == Classify(at.interval, res.value)
    IN  IF ~res.ok THEN Catch(at0, res.error)
        ELSE IF c.act = "resolve" THEN OnToken(at0, c.token)
        ELSE IF c.act = "reschedule"
             THEN [at0 EXCEPT !.pc = "timer", !.delays = Append(@, c.delay)]
        ELSE Catch(at0, c.error)

\* OnRemoteReply with a failed git command taken by the login's catch block.
OnRemoteReply_FailureAborts(at, reply) ==
    IF ~reply.ok
    THEN [at EXCEPT !.pc = "done",
                    !.messages = Append(@, [kind |-> "error",
                                    text |-> Prefixed("Device Flow Login failed: ", Chars(reply.out))]),
                    !.notified = Append(@, "show-setup")]
    ELSE IF at.pc = "setUrl"
    THEN [at EXCEPT !.pc = "profile", !.remoteResult = Lit("Remote URL updated with token")]
    ELSE IF StartsWith(reply.out, HttpsPrefix)
    THEN [at EXCEPT !.pc = "setUrl",
                    !.cmds = Append(@, SetUrlCmd(EmbedToken(StripCredential(reply.out),
                                                            TokenChars(at.token))))]
    ELSE [at EXCEPT !.pc = "profile",
                    !.remoteResult = Lit("Remote URL is not HTTPS, skipping token update")]

\* updateRemoteUrlWithToken resumed by the answer of the command it awaits; when
\* it returns, getUserProfile(token) is requested.
OnRemoteReply(at, reply) ==
    IF ~reply.ok
    THEN [at EXCEPT !.pc = "profile", !.remoteResult = Lit("Failed to update remote URL")]
    ELSE IF at.pc = "setUrl"
    THEN [at EXCEPT !.pc = "profile", !.remoteResult = Lit("Remote URL updated with token")]
    ELSE IF StartsWith(reply.out, HttpsPrefix)
    THEN [at EXCEPT !.pc = "setUrl",
                    !.cmds = Append(@, SetUrlCmd(EmbedToken(StripCredential(reply.out),
                                                            TokenChars(at.token))))]
    ELSE [at EXCEPT !.pc = "profile",
                    !.remoteResult = Lit("Remote URL is not HTTPS, skipping token update")]

\* The attempts a click on Cancel, or a new login, finds waiting for the user.
Polling(a) == attempts[a].pc \in {"polling", "timer"}

FreeAttempts == {a \in AttemptIds : attempts[a].pc = "free"}
NewAttempt == CHOOSE a \in FreeAttempts : \A b \in FreeAttempts : a <= b

\* Attempt a moves to `at`: a token it stored is in the secret store, and the
\* view follows a show-setup it posted.
AttemptStep(a, at) ==
    /\ attempts' = [attempts EXCEPT ![a] = at]
    /\ secrets' = IF at.stored > attempts[a].stored
                  THEN [secrets EXCEPT !.githubPat = at.token] ELSE secrets
    /\ view' = IF Len(at.notified) > Len(attempts[a].notified) THEN "setup"
               ELSE IF at.shown > attempts[a].shown THEN "device-code"
               ELSE view
    /\ UNCHANGED <<workspaceRoot, config, lastSave, currentUser, tasks, refreshes>>

\* onDidReceiveMessage, case "login-device-flow": handleDeviceFlowLogin sends the
\* device-code request; the attempts still pending are left as they are.
StartLogin ==
    /\ FreeAttempts # {}
    /\ attempts' = [b \in AttemptIds |->
            IF b = NewAttempt THEN [FreeAttempt EXCEPT !.pc = "initiating"]
            ELSE IF Polling(b) /\ attempts[b].supersededAt = NoSnapshot
                 THEN [attempts[b] EXCEPT !.supersededAt = Effects(attempts[b])]
                 ELSE attempts[b]]
    /\ UNCHANGED <<workspaceRoot, config, lastSave, secrets, currentUser, view, tasks, refreshes>>

\* connectGitHub() in the setup view, while no handler is on the stack or suspended.
LoginDeviceFlow ==
    /\ view = "setup"
    /\ Quiet
    /\ StartLogin

\* connectGitHub() in the setup view, whatever else is going on.
LoginDeviceFlowAgain ==
    /\ view = "setup"
    /\ StartLogin

\* The device-code request of an attempt settles.
InitiateReturn ==
    \E a \in AttemptIds :
        /\ attempts[a].pc = "initiating"
        /\ \E reply \in InitReplies : AttemptStep(a, OnInitiated(attempts[a], reply))
InitiateReturnBrief ==
    \E a \in AttemptIds :
        /\ attempts[a].pc = "initiating"
        /\ \E reply \in BriefInitReplies : AttemptStep(a, OnInitiated(attempts[a], reply))

\* A token request of an attempt settles.
PollReturn ==
    \E a \in AttemptIds :
        /\ attempts[a].pc = "polling"
        /\ \E reply \in TokenReplies(Tokens) : AttemptStep(a, OnPoll(attempts[a], reply))
PollReturnBrief ==
    \E a \in AttemptIds :
        /\ attempts[a].pc = "polling"
        /\ \E reply \in BriefTokenReplies({IssuedToken(a)}) :
                AttemptStep(a, OnPoll(attempts[a], reply))

\* The timer of setTimeout(poll, ...) fires: poll sends the next token request.
TimerFire ==
    \E a \in AttemptIds :
        /\ attempts[a].pc = "timer"
        /\ attempts[a].requests < MaxPolls
        /\ AttemptStep(a, [attempts[a] EXCEPT !.pc = "polling", !.requests = @ + 1])

\* cancelLogin() in the device-code view: the setup view is shown again; no
\* message goes to the extension.
CancelLogin ==
    /\ view = "device-code"
    /\ view' = "setup"
    /\ attempts' = [b \in AttemptIds |->
            IF Polling(b) /\ attempts[b].cancelledAt = NoSnapshot
            THEN [attempts[b] EXCEPT !.cancelledAt = Effects(attempts[b])]
            ELSE attempts[b]]
    /\ UNCHANGED <<workspaceRoot, config, lastSave, secrets, currentUser, tasks, refreshes>>

\* The callback of cp.exec for the command updateRemoteUrlWithToken awaits.
LoginExecReturn ==
    \E a \in AttemptIds :
        /\ attempts[a].pc \in {"getUrl", "setUrl"}
        /\ \E reply \in Replies(attempts[a].cmds[Len(attempts[a].cmds)]) :
                AttemptStep(a, OnRemoteReply([attempts[a] EXCEPT !.gitReplies = Append(@, reply)],
                                             reply))

\* LoginProfileReturn with a profile failure taken by the login's catch block.
LoginProfileReturn_FailureFatal ==
    \E a \in AttemptIds :
        /\ attempts[a].pc = "profile"
        /\ \E reply \in ProfileReplies(attempts[a].token) :
                IF reply.ok
                THEN /\ currentUser' = UserOf(reply.profile, attempts[a].token)
                     /\ attempts' = [attempts EXCEPT ![a].pc = "checkAuth", ![a].profile = "ok"]
                ELSE /\ UNCHANGED currentUser
                     /\ attempts' = [attempts EXCEPT ![a] =
                            Catch([attempts[a] EXCEPT !.profile = "failed"], Lit("Bad credentials"))]
        /\ UNCHANGED <<workspaceRoot, config, lastSave, secrets, view, tasks, refreshes>>

\* getUserProfile(token) settles as `reply`: the profile becomes currentUser, a
\* failure is logged; then this.checkAuth() is called.
LoginProfileReturnWith(a, reply) ==
    /\ currentUser' = IF reply.ok THEN UserOf(reply.profile, attempts[a].token)
                      ELSE currentUser
    /\ attempts' = [attempts EXCEPT ![a].pc = "checkAuth",
                                    ![a].profile = IF reply.ok THEN "ok" ELSE "failed"]
    /\ UNCHANGED <<workspaceRoot, config, lastSave, secrets, view, tasks, refreshes>>

LoginProfileReturn ==
    \E a \in AttemptIds :
        /\ attempts[a].pc = "profile"
        /\ \E reply \in ProfileReplies(attempts[a].token) : LoginProfileReturnWith(a, reply)
LoginProfileReturnBrief ==
    \E a \in AttemptIds :
        /\ attempts[a].pc = "profile"
        /\ \E reply \in BriefProfileReplies(attempts[a].token) : LoginProfileReturnWith(a, reply)

\* LoginCheckAuth that looks at the GitHub token only.
LoginCheckAuth_TokenOnly ==
    \E a \in AttemptIds :
        /\ attempts[a].pc = "checkAuth"
        /\ IF secrets.githubPat = ""
           THEN /\ view' = "setup"
                /\ attempts' = [attempts EXCEPT ![a].pc = "done",
                                                ![a].notified = Append(@, "show-setup")]
                /\ UNCHANGED refreshes
           ELSE /\ view' = "dashboard"
                /\ attempts' = [attempts EXCEPT ![a].pc = "done",
                                                ![a].notified = Append(@, "show-dashboard")]
                /\ StartRefresh(<<"checkAuth", a>>)
        /\ UNCHANGED <<workspaceRoot, config, lastSave, secrets, currentUser, tasks>>

\* checkAuth, called by the login handler: both secrets are read; show-setup if one
\* is missing, else show-dashboard and this.refreshStats().
LoginCheckAuth ==
    \E a \in AttemptIds :
        /\ attempts[a].pc = "checkAuth"
        /\ IF secrets.apiKey = "" \/ secrets.githubPat = ""
           THEN /\ view' = "setup"
                /\ attempts' = [attempts EXCEPT ![a].pc = "done",
                                                ![a].notified = Append(@, "show-setup")]
                /\ UNCHANGED refreshes
           ELSE /\ view' = "dashboard"
                /\ attempts' = [attempts EXCEPT ![a].pc = "done",
                                                ![a].notified = Append(@, "show-dashboard")]
                /\ StartRefresh(<<"checkAuth", a>>)
        /\ UNCHANGED <<workspaceRoot, config, lastSave, secrets, currentUser, tasks>>

InitAuth ==
    /\ workspaceRoot \in {Undef, Str(SomeRoot)}
    /\ config = DefaultConfig
    /\ lastSave = NoSave
    /\ secrets \in [apiKey : {"", "K"}, githubPat : {""}]
    /\ currentUser = NoUser
    /\ view = "setup"
    /\ tasks = [i \in TaskIds |-> FreeTask]
    /\ refreshes = [r \in RefreshIds |-> FreeRefresh]
    /\ attempts = [a \in AttemptIds |-> FreeAttempt]

NextAuth ==
    \/ LoginDeviceFlow
    \/ InitiateReturn
    \/ PollReturn
    \/ TimerFire
    \/ CancelLogin
    \/ LoginExecReturn
    \/ LoginProfileReturn
    \/ LoginCheckAuth
    \/ RefreshExecReturn
    \/ RefreshProfileReturn
    \/ RefreshSessionReturn
    \/ Collect

SpecAuth == InitAuth /\ [][NextAuth]_vars

\* Logins that overlap, with no workspace open and a provider of few words.
InitRelogin ==
    /\ InitAuth
    /\ workspaceRoot = Undef

NextRelogin ==
    \/ LoginDeviceFlowAgain
    \/ InitiateReturnBrief
    \/ PollReturnBrief
    \/ TimerFire
    \/ CancelLogin
    \/ LoginProfileReturn
    \/ LoginCheckAuth

SpecRelogin == InitRelogin /\ [][NextRelogin]_vars

InitGit ==
    /\ workspaceRoot \in {Undef, Str(SomeRoot)}
    /\ config = DefaultConfig
    /\ lastSave = NoSave
    /\ secrets \in [apiKey : {"", "K"}, githubPat : {"", SomeToken}]
    /\ currentUser = NoUser
    /\ view = "setup"
    /\ tasks = [i \in TaskIds |-> FreeTask]
    /\ refreshes = [r \in RefreshIds |-> FreeRefresh]
    /\ attempts = [a \in AttemptIds |-> FreeAttempt]

NextGit ==
    \/ GitAction
    \/ Collect
    \/ ExecReturn
    \/ RefreshExecReturn
    \/ RefreshProfileReturn
    \/ RefreshSessionReturn

SpecGit == InitGit /\ [][NextGit]_vars

\* Messages that arrive while earlier handlers are suspended at an await:
\* onDidReceiveMessage starts a handler for each message as it arrives.
OverlapActions == {"status", "push"}

FreeTasks == {i \in TaskIds : tasks[i].pc = "free"}
NewTask == CHOOSE i \in FreeTasks : \A j \in FreeTasks : i <= j

\* onDidReceiveMessage, case "git-action", whatever else is going on.
GitActionAgain ==
    /\ FreeTasks # {}
    /\ \E action \in OverlapActions : Dispatch(NewTask, action, NoPayload)

\* onDidReceiveMessage, case "refresh-stats": await this.refreshStats().
RefreshStatsCommand ==
    /\ StartRefresh(<<"command", 0>>)
    /\ UNCHANGED <<workspaceRoot, config, lastSave, secrets, currentUser, view, tasks, attempts>>

InitOverlap ==
    /\ InitGit
    /\ workspaceRoot # Undef
    /\ secrets.githubPat = ""

NextOverlap ==
    \/ GitActionAgain
    \/ RefreshStatsCommand
    \/ ExecReturnBrief
    \/ RefreshExecReturnBrief
    \/ RefreshSessionReturn
    \/ Collect

SpecOverlap == InitOverlap /\ [][NextOverlap]_vars

(* ---------------------------------------------------------------------- *)
(* SidebarProvider.saveSettings, the logout-github case and checkAuth.     *)
(* ---------------------------------------------------------------------- *)

\* A field of the save-settings record: undefined, or a string.
Text(s) == [t |-> "string", s |-> s]
\* if (settings.<field>)
Given(v) == v.t = "string" /\ v.s # ""

PastedToken == "T3"

\* The records the setup form, or any other sender, can submit.
SettingsForms ==
    [apiKey : {Undef, Text(""), Text("K2")},
     pat : {Undef, Text(""), Text(PastedToken)},
     provider : {Undef, Text(""), Text("GLM")},
     baseUrl : {Text(""), Text("B")},
     modelName : {Text(""), Text("M")}]

\* The setup form filled in with a key and a pasted token.
BriefForms ==
    {[apiKey |-> Text("K2"), pat |-> Text(PastedToken), provider |-> Text("GLM"),
      baseUrl |-> Text(""), modelName |-> Text("")]}

\* StoredAfter that lets an empty string through.
StoredAfter_BlankOverwrites(old, v) == IF v.t = "string" THEN v.s ELSE old

\* if (settings.f) await store(key, settings.f): what the store holds afterwards.
StoredAfter(old, v) == IF Given(v) THEN v.s ELSE old

\* checkAuth's if: the notification it posts for the secrets it read.
CheckAuthPosts(s) ==
    IF s.apiKey = "" \/ s.githubPat = "" THEN "show-setup" ELSE "show-dashboard"

\* this.checkAuth(), called by `owner` with the secret store holding s.
CheckAuth(s, owner) ==
    IF CheckAuthPosts(s) = "show-setup"
    THEN view' = "setup" /\ UNCHANGED refreshes
    ELSE view' = "dashboard" /\ StartRefresh(owner)

\* onDidReceiveMessage, case "save-settings": saveSettings(data.value) with one of
\* `forms`; the fields given are written, then checkAuth runs.
SaveSettingsFrom(forms) ==
    \E s \in forms :
        LET secretsAfter == [apiKey |-> StoredAfter(secrets.apiKey, s.apiKey),
                             githubPat |-> StoredAfter(secrets.githubPat, s.pat)]
            configAfter == [apiProvider |-> StoredAfter(config.apiProvider, s.provider),
                            apiBaseUrl |-> StoredAfter(config.apiBaseUrl, s.baseUrl),
                            modelName |-> StoredAfter(config.modelName, s.modelName)]
        IN  /\ secrets' = secretsAfter
            /\ config' = configAfter
            /\ lastSave' = [t |-> "save", settings |-> s,
                            before |-> [secrets |-> secrets, config |-> config],
                            after |-> [secrets |-> secretsAfter, config |-> configAfter],
                            posted |-> CheckAuthPosts(secretsAfter)]
            /\ CheckAuth(secretsAfter, <<"saveSettings", 0>>)
            /\ UNCHANGED <<workspaceRoot, currentUser, tasks, attempts>>

\* saveSettings('setup') in the setup view, while no handler is on the stack or
\* suspended; and the same with the brief form, whatever else is going on.
SaveSettings ==
    /\ view = "setup"
    /\ Quiet
    /\ SaveSettingsFrom(SettingsForms)
SaveSettingsAgain ==
    /\ view = "setup"
    /\ SaveSettingsFrom(BriefForms)

\* logoutGitHub() in the main view; onDidReceiveMessage, case "logout-github": the
\* token secret is deleted, currentUser is cleared, then checkAuth runs.
Logout ==
    /\ view = "dashboard"
    /\ secrets' = [secrets EXCEPT !.githubPat = ""]
    /\ currentUser' = NoUser
    /\ CheckAuth([secrets EXCEPT !.githubPat = ""], <<"logout", 0>>)
    /\ attempts' = [b \in AttemptIds |->
            IF AttemptRunning(b) /\ attempts[b].loggedOutAt = NoSnapshot
            THEN [attempts[b] EXCEPT !.loggedOutAt = Effects(attempts[b])]
            ELSE attempts[b]]
    /\ UNCHANGED <<workspaceRoot, config, lastSave, tasks>>

\* Settings saved and logouts, one handler at a time.
InitSettings ==
    /\ InitGit
    /\ secrets.apiKey = "" \/ secrets.githubPat = ""

NextSettings ==
    \/ SaveSettings
    \/ Logout
    \/ RefreshExecReturnBrief
    \/ RefreshProfileReturnBrief
    \/ RefreshSessionReturn
    \/ Collect

SpecSettings == InitSettings /\ [][NextSettings]_vars

\* A login, saved settings and logouts that overlap, with no workspace open.
InitSession == InitRelogin

NextSession ==
    \/ LoginDeviceFlow
    \/ InitiateReturnBrief
    \/ PollReturnBrief
    \/ TimerFire
    \/ CancelLogin
    \/ LoginProfileReturnBrief
    \/ LoginCheckAuth
    \/ SaveSettingsAgain
    \/ Logout
    \/ RefreshProfileReturnBrief
    \/ RefreshSessionReturn
    \/ Collect

SpecSession == InitSession /\ [][NextSession]_vars

(* ---------------------------------------------------------------------- *)
(* Properties of the dispatcher.                                           *)
(* ---------------------------------------------------------------------- *)

\* Whether task i got no usable value for the payload field its action requires.
LacksRequired(i) ==
    LET a == tasks[i].action
        p == tasks[i].payload
        f == IF a = "commit" THEN "message" ELSE IF a = "set-remote" THEN "url" ELSE "name"
    IN  /\ a \in {"commit", "set-remote", "create-branch", "delete-branch",
                  "switch-branch", "merge-branch"}
        /\ \/ p = NoPayload
           \/ p[f] = Undef
           \/ p[f] = Str(<<>>)

\* C1: an action dispatched without the payload field it requires (payload absent,
\* field absent or field empty) has returned with a failure report, has spawned no
\* child process, and has started no refreshStats run that would spawn one.
C1_MissingFieldFailsWithoutCommand ==
    \A i \in TaskIds :
        (tasks[i].pc # "free" /\ LacksRequired(i)) =>
            /\ tasks[i].pc = "returned"
            /\ tasks[i].report.kind = "failure"
            /\ tasks[i].report.action = tasks[i].action
            /\ tasks[i].cmds = <<>>
            /\ \A r \in RefreshIds : refreshes[r].owner # <<"task", i>>

\* C1's case: with a workspace open, a commit whose message is the empty string.
C1_Witness ==
    \E i \in TaskIds :
        /\ workspaceRoot # Undef
        /\ tasks[i].pc = "returned"
        /\ tasks[i].action = "commit"
        /\ tasks[i].payload = Obj(Str(<<>>), Undef, Undef)
        /\ tasks[i].report.text = Lit("Commit message required")

\* C2: every invocation of handleGitAction that has returned, with a success or
\* with a failure report, has triggered a run of refreshStats.
C2_RefreshAfterEveryAction ==
    \A i \in TaskIds :
        tasks[i].pc = "returned" =>
            /\ tasks[i].refresh = 1
            /\ \E r \in RefreshIds : refreshes[r].owner = <<"task", i>>

\* The three commands of fast-push, in order.
FastPushCmds ==
    <<Cmd("git add .", <<>>), Cmd("git commit -m", FastPushMessage), Cmd("git push", <<>>)>>

\* C3: fast-push issues stage-all, commit "Fast Push: Auto-commit" and push in that
\* order and nothing else; a failed command is the last one issued and the action
\* is then reported as failed; a success report means all three were issued.
C3_FastPushSequence ==
    \A i \in TaskIds :
        tasks[i].action = "fast-push" =>
            LET t == tasks[i]
            IN  /\ Len(t.cmds) <= 3
                /\ t.cmds = SubSeq(FastPushCmds, 1, Len(t.cmds))
                /\ \A k \in 1..Len(t.replies) :
                        ~t.replies[k].ok =>
                            /\ Len(t.cmds) = k
                            /\ t.pc = "returned"
                            /\ t.report.kind = "failure"
                /\ (t.pc = "returned" /\ t.report.kind = "success") =>
                        /\ t.cmds = FastPushCmds
                        /\ \A k \in 1..3 : t.replies[k].ok
                /\ (t.pc = "returned" /\ workspaceRoot # Undef) => Len(t.replies) = Len(t.cmds)

\* C3's case: stage-all succeeded, the commit failed, and the action has returned.
C3_Witness ==
    \E i \in TaskIds :
        /\ tasks[i].action = "fast-push"
        /\ tasks[i].pc = "returned"
        /\ Len(tasks[i].replies) = 2
        /\ tasks[i].replies[1].ok
        /\ ~tasks[i].replies[2].ok
        /\ tasks[i].report.kind = "failure"

(* ---------------------------------------------------------------------- *)
(* Properties of the device flow.                                          *)
(* ---------------------------------------------------------------------- *)

\* C4: once the user has cancelled a pending attempt, that attempt issues no further
\* token request, stores no token, shows no outcome message and emits neither
\* show-setup nor show-dashboard: what it has done is what it had done at the cancel.
C4_CancelIsFinal ==
    \A a \in AttemptIds :
        attempts[a].cancelledAt # NoSnapshot => Effects(attempts[a]) = attempts[a].cancelledAt

\* C5: at most one polling loop is live, and an attempt that a newer
\* login-device-flow found pending does nothing more: no token request, no stored
\* token, no reported outcome.
C5_OnePollingLoop ==
    /\ Cardinality({a \in AttemptIds : Polling(a)}) <= 1
    /\ \A a \in AttemptIds :
            attempts[a].supersededAt # NoSnapshot =>
                Effects(attempts[a]) = attempts[a].supersededAt

\* C6: after a slow_down response carrying interval I, that reschedule and every
\* later one of the same loop wait at least I + 1 seconds.
C6_SlowDownIsPermanent ==
    \A a \in AttemptIds :
        \A k \in 1..Len(attempts[a].resps) :
            attempts[a].resps[k].body.error = "slow_down" =>
                \A j \in k..Len(attempts[a].delays) :
                    attempts[a].delays[j] >= attempts[a].resps[k].body.interval + 1

RECURSIVE SumTo(_, _)
\* The sum of the first n numbers of a sequence.
SumTo(seq, n) == IF n = 0 THEN 0 ELSE SumTo(seq, n - 1) + seq[n]

\* C7: a poll response that is no token and arrives once the device code has expired
\* (the timers that ran before its request add up to expires_in or more) ends the
\* attempt with an error; no timer is set and no token request follows it.
C7_ExpiryEndsPolling ==
    \A a \in AttemptIds :
        attempts[a].expiresIn # NoNumber =>
            \A j \in 1..Len(attempts[a].resps) :
                (/\ SumTo(attempts[a].delays, j - 1) >= attempts[a].expiresIn
                 /\ attempts[a].resps[j].body.access_token = "") =>
                    /\ Len(attempts[a].delays) = j - 1
                    /\ attempts[a].requests = j
                    /\ attempts[a].outcome = "error"

\* Whether the responses of an attempt are n authorization_pending answers, n >= 0,
\* followed by one that carries an access token.
PendingThenToken(at) ==
    /\ at.resps # <<>>
    /\ \A j \in 1..(Len(at.resps) - 1) : at.resps[j].body.error = "authorization_pending"
    /\ at.resps[Len(at.resps)].kind = "json"
    /\ at.resps[Len(at.resps)].body.access_token # ""

OnlyPending(at) ==
    /\ at.resps # <<>>
    /\ \A j \in 1..Len(at.resps) : at.resps[j].body.error = "authorization_pending"

\* C8: for a loop polling at a numeric interval, n authorization_pending answers
\* followed by a token T resolve with exactly T after n reschedules of interval + 1
\* seconds each and n + 1 token requests; and as long as every answer was
\* authorization_pending the attempt has only set timers: no outcome, nothing stored,
\* nothing shown, the interval as issued.
C8_PendingThenToken ==
    \A a \in AttemptIds :
        LET at == attempts[a]
            n == Len(at.resps) - 1
        IN  at.interval # NoNumber =>
                /\ PendingThenToken(at) =>
                        /\ at.outcome = "token"
                        /\ at.token = at.resps[n + 1].body.access_token
                        /\ at.requests = n + 1
                        /\ Len(at.delays) = n
                        /\ \A j \in 1..n : at.delays[j] = at.interval + 1
                /\ OnlyPending(at) =>
                        /\ at.pc \in {"timer", "polling"}
                        /\ at.outcome = "none"
                        /\ at.stored = 0
                        /\ at.messages = <<>>
                        /\ at.notified = <<>>
                        /\ at.interval = at.init[1].body.interval
                        /\ Len(at.delays) = Len(at.resps)
                        /\ \A j \in 1..Len(at.delays) : at.delays[j] = at.interval + 1
                        /\ at.requests = Len(at.resps) + (IF at.pc = "polling" THEN 1 ELSE 0)

\* C8's case: the spec's sequence [pending, pending, token] has resolved.
C8_Witness ==
    \E a \in AttemptIds :
        /\ Len(attempts[a].resps) = 3
        /\ PendingThenToken(attempts[a])
        /\ attempts[a].outcome = "token"
        /\ attempts[a].delays = <<attempts[a].interval + 1, attempts[a].interval + 1>>

\* Whether a token response is one of the answers that end the loop.
Terminal(reply) ==
    \/ reply.kind # "json"
    \/ reply.body.access_token # ""
    \/ reply.body.error \notin {"authorization_pending", "slow_down"}

\* The message the login handler shows for a polling failure.
LoginFailed(text) == [kind |-> "error", text |-> Prefixed("Device Flow Login failed: ", Lit(text))]

\* C9: a terminal answer (a token, expired_token, access_denied, any other error, a
\* transport or parse failure) is the last answer of its attempt: no timer is set
\* for it and no token request follows it; expired_token fails with "Token expired"
\* and access_denied with "Access denied".
C9_TerminalEndsLoop ==
    \A a \in AttemptIds :
        LET at == attempts[a]
        IN  \A j \in 1..Len(at.resps) :
                Terminal(at.resps[j]) =>
                    /\ j = Len(at.resps)
                    /\ at.requests = j
                    /\ Len(at.delays) = j - 1
                    /\ at.pc \notin {"polling", "timer"}
                    /\ at.outcome = IF at.resps[j].body.access_token # "" THEN "token" ELSE "error"
                    /\ at.resps[j].body.error = "expired_token" =>
                            at.messages = <<LoginFailed("Token expired")>>
                    /\ at.resps[j].body.error = "access_denied" =>
                            at.messages = <<LoginFailed("Access denied")>>

\* C9's case: after one authorization_pending, access_denied has ended the attempt.
C9_Witness ==
    \E a \in AttemptIds :
        /\ Len(attempts[a].resps) = 2
        /\ attempts[a].resps[2].body.error = "access_denied"
        /\ attempts[a].pc = "done"
        /\ attempts[a].outcome = "error"

\* C10: a device-code request that fails in transport or is answered with a status
\* outside 2xx ends the attempt with an error: show-device-code is never posted, no
\* token request is issued, and show-setup is posted.
C10_InitiationFailureIsFatal ==
    \A a \in AttemptIds :
        LET at == attempts[a]
        IN  (/\ at.init # <<>>
             /\ (at.init[1].kind = "transport" \/ at.init[1].status \notin 200..299)) =>
                /\ at.shown = 0
                /\ at.requests = 0
                /\ at.pc = "done"
                /\ at.outcome = "error"
                /\ at.notified = <<"show-setup">>

(* ---------------------------------------------------------------------- *)
(* Properties of the login handler and of the facade.                      *)
(* ---------------------------------------------------------------------- *)

\* The messages of one kind among those an attempt has shown.
MessagesOf(at, kind) == {j \in 1..Len(at.messages) : at.messages[j].kind = kind}

\* C11: an attempt settles at most once, with a token or with an error and never
\* both: it shows at most one outcome message; a token outcome is the token of the
\* last response, written to the secret store exactly once and shown in no message;
\* an error outcome stores nothing; an attempt still waiting has stored and shown
\* nothing.
C11_OutcomeExactlyOnce ==
    \A a \in AttemptIds :
        LET at == attempts[a]
        IN  /\ Len(at.messages) <= 1
            /\ at.stored <= 1
            /\ at.outcome = "token" =>
                    /\ at.stored = 1
                    /\ at.token # ""
                    /\ at.token = at.resps[Len(at.resps)].body.access_token
                    /\ secrets.githubPat = at.token
                    /\ at.messages = <<[kind |-> "info",
                                        text |-> Lit("Successfully logged in with GitHub!")]>>
            /\ at.outcome = "error" =>
                    /\ at.stored = 0
                    /\ at.token = ""
                    /\ Cardinality(MessagesOf(at, "error")) = 1
                    /\ MessagesOf(at, "info") = {}
            /\ at.outcome = "none" =>
                    /\ at.stored = 0
                    /\ at.messages = <<>>

\* C11's case: an attempt has resolved with a token and its handler has finished.
C11_Witness ==
    \E a \in AttemptIds :
        /\ attempts[a].pc = "done"
        /\ attempts[a].outcome = "token"
        /\ attempts[a].stored = 1
        /\ Len(attempts[a].resps) >= 2

\* The texts a failure report of task t may carry: the message of the error that
\* reached the catch of handleGitAction.
FailureTexts(t) ==
    IF t.cmds = <<>>
    THEN IF workspaceRoot = Undef /\ ~MissingField(t.action, t.payload)
         THEN {NoWorkspaceError, Prefixed("Failed to set remote: ", NoWorkspaceError)}
         ELSE {RequiredMessage(t.action)}
    ELSE IF t.replies[Len(t.replies)].ok THEN {}
    ELSE IF t.action = "set-remote"
         THEN {Prefixed("Failed to set remote: ", Chars(t.replies[Len(t.replies)].out))}
         ELSE {Chars(t.replies[Len(t.replies)].out)}

\* C12: an invocation of handleGitAction ends in one report and shows none before
\* it ends: a success report with the action's name (for an action that is one
\* command, that command's output) or a failure report with the action's name and
\* the message of the error that reached the catch; every command it issued was
\* answered, and no command was issued twice.
C12_OneReportPerAction ==
    \A i \in TaskIds :
        LET t == tasks[i]
        IN  /\ t.pc # "returned" => t.report = NoReport
            /\ t.pc = "returned" =>
                    /\ t.report.kind \in {"success", "failure"}
                    /\ t.report.action = t.action
                    /\ Len(t.replies) = Len(t.cmds)
                    /\ \A j, k \in 1..Len(t.cmds) : j < k => t.cmds[j] # t.cmds[k]
                    /\ t.report.kind = "failure" => t.report.text \in FailureTexts(t)
                    /\ (t.report.kind = "success" /\ FirstStep(t.action) \in {"exec", "addAll"}
                            /\ t.action \in GitActions) =>
                            /\ \A j \in 1..Len(t.replies) : t.replies[j].ok
                            /\ t.report.text = Chars(t.replies[Len(t.replies)].out)
                    /\ (t.report.kind = "success" /\ t.action \notin GitActions) =>
                            /\ t.cmds = <<>>
                            /\ t.report.text = Lit("")

\* C12's case: a push whose git push failed has been reported, once, as a failure
\* carrying git's message.
C12_Witness ==
    \E i \in TaskIds :
        /\ tasks[i].pc = "returned"
        /\ tasks[i].action = "push"
        /\ tasks[i].cmds = <<PushCmd>>
        /\ tasks[i].report = [kind |-> "failure", action |-> "push", text |-> Chars(SomeStderr)]

\* C13: with no working directory, a facade operation an action calls returns a
\* result instead of throwing, so the action (given the payload field it needs) is
\* reported as a success, and no child process is spawned.
C13_NoWorkspaceNeverThrows ==
    \A i \in TaskIds :
        (/\ workspaceRoot = Undef
         /\ tasks[i].pc = "returned"
         /\ tasks[i].action \in GitActions
         /\ ~MissingField(tasks[i].action, tasks[i].payload)) =>
            /\ tasks[i].cmds = <<>>
            /\ tasks[i].report.kind = "success"

\* C14: setRemote probes for origin first; after a probe that succeeded it issues
\* set-url and never remote add, and a set-url that fails ends setRemote with a
\* failure; remote add is issued only after a probe that failed.
C14_SetRemoteProbeDecides ==
    \A i \in TaskIds :
        LET t == tasks[i]
            url == t.payload.url.s
        IN  (t.action = "set-remote" /\ t.cmds # <<>>) =>
                /\ t.cmds[1] = GetUrlCmd
                /\ (Len(t.replies) >= 1 /\ t.replies[1].ok) =>
                        /\ Len(t.cmds) = 2
                        /\ t.cmds[2] = SetUrlCmd(url)
                        /\ (Len(t.replies) = 2 /\ ~t.replies[2].ok) =>
                                /\ t.pc = "returned"
                                /\ t.report.kind = "failure"
                /\ (Len(t.replies) >= 1 /\ ~t.replies[1].ok) =>
                        /\ Len(t.cmds) = 2
                        /\ t.cmds[2] = AddRemoteCmd(url)

\* C15: the status action never fails, and its result tells its outcomes apart:
\* "No Repo" without a working directory (no command issued), "Clean" for empty
\* output of the status command, the output itself when there is some, and
\* "Error getting status" when the command failed; the three fixed texts differ.
C15_StatusOutcomes ==
    /\ Cardinality({Lit("Clean"), Lit("Error getting status"), Lit("No Repo")}) = 3
    /\ \A i \in TaskIds :
        LET t == tasks[i]
        IN  (t.action = "status" /\ t.pc = "returned") =>
                /\ t.report.kind = "success"
                /\ IF workspaceRoot = Undef
                   THEN t.cmds = <<>> /\ t.report.text = Lit("No Repo")
                   ELSE /\ t.cmds = <<StatusCmd>>
                        /\ Len(t.replies) = 1
                        /\ t.report.text =
                                IF ~t.replies[1].ok THEN Lit("Error getting status")
                                ELSE IF t.replies[1].out = <<>> THEN Lit("Clean")
                                ELSE Chars(t.replies[1].out)

\* C15's case: the status command failed and status returned its error text.
C15_Witness ==
    \E i \in TaskIds :
        /\ tasks[i].action = "status"
        /\ tasks[i].pc = "returned"
        /\ tasks[i].replies = <<Failed(SomeStderr)>>
        /\ tasks[i].report.text = Lit("Error getting status")

\* The repository name the spec's chain gives for the answer to the origin-url
\* query: the name at the end of the url, else the folder of the working directory.
NamedByChain(reply) ==
    IF ~reply.ok THEN <<"p", "r", "o", "j">>
    ELSE CASE reply.out = <<"h", "t", "t", "p", "s", ":", "/", "/", "u", "@", "h", "/", "o", "/", "r", ".", "g", "i", "t">>
                -> <<"r">>
           [] reply.out = <<"h", "t", "t", "p", "s", ":", "/", "/", "h", "/", "o", "/", "q", "@", "2">>
                -> <<"q", "@", "2">>
           [] reply.out = <<"s", "s", "h", ":", "/", "/", "h", "/", "o", "/">> -> <<"p", "r", "o", "j">>

\* C16: the repository name follows the chain: without a working directory it is
\* "No Repo" and no command is issued; with one, the origin url is asked for once,
\* and the name is the url's last segment less a closing ".git" when the query
\* succeeded and the url ends in such a segment, else the last segment of the
\* working directory.
C16_RepoNameChain ==
    \A r \in RefreshIds :
        LET f == refreshes[r]
        IN  f.repoName # Undef =>
                IF workspaceRoot = Undef
                THEN f.repoName = Lit("No Repo") /\ f.cmds = <<>>
                ELSE /\ Len(f.cmds) = 4
                     /\ Len(f.replies) = 4
                     /\ f.cmds[4] = GetUrlCmd
                     /\ \A j \in 1..3 : f.cmds[j] # GetUrlCmd
                     /\ f.repoName = Chars(NamedByChain(f.replies[4]))

\* C16's case: origin is https://u@h/o/r.git and the name reported is r.
C16_Witness ==
    \E r \in RefreshIds :
        /\ Len(refreshes[r].replies) = 4
        /\ refreshes[r].replies[4].ok
        /\ StartsWith(refreshes[r].replies[4].out, HttpsPrefix)
        /\ refreshes[r].repoName = Chars(<<"r">>)

\* The host and path of an https url: what follows "https://", less a credential
\* (the text up to an "@" that stands before the first "/").
HostAndPath(url) ==
    LET rest == SubSeq(url, Len(HttpsPrefix) + 1, Len(url))
        slashes == {i \in 1..Len(rest) : rest[i] = "/"}
        hostEnd == IF slashes = {} THEN Len(rest)
                   ELSE (CHOOSE i \in slashes : \A j \in slashes : i <= j) - 1
        ats == {i \in 1..hostEnd : rest[i] = "@"}
    IN  IF ats = {} THEN rest
        ELSE SubSeq(rest, (CHOOSE i \in ats : \A j \in ats : j <= i) + 1, Len(rest))

\* C17: updateRemoteUrlWithToken never throws; for an https origin it issues one
\* set-url, with the old url less its credential and with the token embedded; for
\* any other origin it issues no set-url and returns the skip result, which is not
\* the failure result.
C17_TokenEmbeddedInOrigin ==
    \A a \in AttemptIds :
        LET at == attempts[a]
        IN  (Len(at.gitReplies) >= 1 /\ at.gitReplies[1].ok) =>
                /\ at.outcome = "token"
                /\ at.cmds[1] = GetUrlCmd
                /\ IF StartsWith(at.gitReplies[1].out, HttpsPrefix)
                   THEN /\ Len(at.cmds) = 2
                        /\ at.cmds[2] = SetUrlCmd(HttpsPrefix \o TokenChars(at.token) \o <<"@">>
                                                    \o HostAndPath(at.gitReplies[1].out))
                        /\ Len(at.gitReplies) = 2 =>
                                at.remoteResult =
                                    IF at.gitReplies[2].ok THEN Lit("Remote URL updated with token")
                                    ELSE Lit("Failed to update remote URL")
                   ELSE /\ at.cmds = <<GetUrlCmd>>
                        /\ at.remoteResult = Lit("Remote URL is not HTTPS, skipping token update")
                        /\ at.remoteResult # Lit("Failed to update remote URL")

\* Whether the device-code request of an attempt failed, and whether its last token
\* request failed or was answered with an error other than "not yet".
InitiationFailed(at) == at.init # <<>> /\ at.init[1].kind # "json"
PollFailed(at) ==
    /\ at.resps # <<>>
    /\ \/ at.resps[Len(at.resps)].kind # "json"
       \/ /\ at.resps[Len(at.resps)].body.access_token = ""
          /\ at.resps[Len(at.resps)].body.error \notin {"authorization_pending", "slow_down"}

C19_ProfileFailureNotFatal ==
    /\ \A a \in AttemptIds :
        LET at == attempts[a]
        IN  at.profile = "failed" =>
                /\ at.outcome = "token"
                /\ at.stored = 1
                /\ secrets.githubPat = at.token
                /\ MessagesOf(at, "error") = {}
                /\ at.pc \in {"checkAuth", "done"}
                /\ at.notified = IF at.pc = "checkAuth" THEN <<>>
                                 ELSE IF secrets.apiKey = "" THEN <<"show-setup">>
                                 ELSE <<"show-dashboard">>
    /\ \A r \in RefreshIds :
        LET f == refreshes[r]
        IN  f.profile = "failed" =>
                /\ f.pc \in {"session", "done"}
                /\ f.pc = "session" => f.posted = <<>>
                /\ f.pc = "done" =>
                        /\ Len(f.posted) = 1
                        /\ f.posted[1].user.t = "user"
                        /\ \/ f.posted[1].user = GuestUser
                           \/ /\ f.posted[1].user.name \in SessionReplies \ {""}
                              /\ f.posted[1].user.email = "Logged in via GitHub"

\* C19's case: the profile fetch failed in the login handler and again in the
\* refresh checkAuth started, and both have finished.
C19_Witness ==
    \E a \in AttemptIds, r \in RefreshIds :
        /\ attempts[a].profile = "failed"
        /\ attempts[a].pc = "done"
        /\ refreshes[r].owner = <<"checkAuth", a>>
        /\ refreshes[r].profile = "failed"
        /\ refreshes[r].pc = "done"

\* Whether the answer to the GraphQL query is a body with errors, and whether it
\* is a viewer without errors and without email.
PrimaryHasErrors(reply) == reply.kind = "json" /\ reply.body.errors # ""
PrimaryLacksEmail(reply) ==
    /\ reply.kind = "json"
    /\ reply.body.errors = ""
    /\ reply.body.viewer # NoViewer
    /\ reply.body.viewer.email = ""

\* C20: a profile fetch starts with the GraphQL query and asks for the email list
\* exactly when the query returned, without errors, a viewer with no email; a query
\* answered with errors fails the fetch with no second request; once the email list
\* was asked for the fetch succeeds, with the primary entry's email when the list
\* came and has one, and with the email still missing otherwise.
C20_SecondaryEmailLookup ==
    \A r \in RefreshIds :
        LET f == refreshes[r]
            g == f.fetch[1]
        IN  f.fetch # <<>> =>
                /\ g.reqs[1] = "graphql"
                /\ Len(g.reqs) = Len(g.resps)
                /\ Len(g.reqs) = IF PrimaryLacksEmail(g.resps[1]) THEN 2 ELSE 1
                /\ PrimaryHasErrors(g.resps[1]) =>
                        /\ ~g.ok
                        /\ g.reqs = <<"graphql">>
                        /\ f.profile = "failed"
                /\ Len(g.reqs) = 2 =>
                        /\ g.reqs[2] = "emails"
                        /\ g.ok
                        /\ f.profile = "ok"
                        /\ g.profile.email = IF g.resps[2] = EmailsWithPrimary THEN "p@x" ELSE ""
                        /\ f.posted[1].user.email =
                                IF g.resps[2] = EmailsWithPrimary THEN "p@x" ELSE "No public email"

\* C20's case: the viewer had no email, the email request failed, and the fetch
\* succeeded with the email missing.
C20_Witness ==
    \E r \in RefreshIds :
        /\ refreshes[r].fetch # <<>>
        /\ Len(refreshes[r].fetch[1].reqs) = 2
        /\ refreshes[r].fetch[1].resps[2].kind = "transport"
        /\ refreshes[r].profile = "ok"
        /\ refreshes[r].pc = "done"
        /\ refreshes[r].posted[1].user.email = "No public email"


(* ---------------------------------------------------------------------- *)
(* Properties of concurrent handlers, settings and logout.                 *)
(* ---------------------------------------------------------------------- *)

\* The child processes running: one per handler suspended in GitService.exec.
InFlight ==
    Cardinality({i \in TaskIds : TaskRunning(i)})
        + Cardinality({r \in RefreshIds : refreshes[r].pc \in RefreshAwaits})

\* C21: git operations execute one at a time: at every moment at most one child
\* process of a git action or of a stats refresh is in flight.
C21_OneCommandInFlight == InFlight <= 1


\* C23: a success report is produced only for an invocation whose action is one
\* of the GitAction names, the only invocations that call the repository facade.
C23_UnknownActionNeverSucceeds ==
    \A i \in TaskIds :
        tasks[i].report.kind = "success" => tasks[i].action \in GitActions


\* C25: within one polling attempt every token response has had exactly one of the
\* three outcomes (resolve with the token, one timer scheduled, reject), and at
\* every moment the attempt has at most one token request in flight and at most
\* one timer pending, never both.
C25_OneOutcomePerPoll ==
    \A a \in AttemptIds :
        LET at == attempts[a]
            inFlight == at.requests - Len(at.resps)
            timers == IF at.requests = 0 THEN 0 ELSE Len(at.delays) - (at.requests - 1)
            resolved == IF at.outcome = "token" THEN 1 ELSE 0
            rejected == IF at.outcome = "error" /\ at.requests > 0 THEN 1 ELSE 0
        IN  /\ inFlight \in {0, 1}
            /\ timers \in {0, 1}
            /\ inFlight + timers <= 1
            /\ inFlight = 1 <=> at.pc = "polling"
            /\ timers = 1 <=> at.pc = "timer"
            /\ Len(at.resps) = Len(at.delays) + resolved + rejected
            /\ resolved = 1 => at.stored = 1

\* An attempt that was told to wait twice and was then refused.
C25_Witness ==
    \E a \in AttemptIds :
        /\ Len(attempts[a].delays) = 2
        /\ Len(attempts[a].resps) = 3
        /\ attempts[a].outcome = "error"


\* C26: in a login that got a token the later steps run in a fixed order, each at
\* most once: the token is stored, then the origin remote is rewritten (at most one
\* get-url and one set-url), then the profile is fetched, then checkAuth posts its
\* one notification. The token is in the secret store from the first of these on,
\* none of them happens without a token, and a failed git command of the rewrite
\* does not end the login: it goes on to the profile and to checkAuth, without an
\* error message.
C26_PostTokenOrder ==
    \A a \in AttemptIds :
        LET at == attempts[a]
            rewriting == at.pc \in {"getUrl", "setUrl"}
            afterRewrite == at.pc \in {"profile", "checkAuth", "done"}
        IN  IF at.outcome = "token"
            THEN /\ at.stored = 1
                 /\ secrets.githubPat = at.token
                 /\ rewriting \/ afterRewrite
                 /\ Len(at.cmds) <= 2
                 /\ Len(at.cmds) >= 1 => at.cmds[1] = GetUrlCmd
                 /\ Len(at.cmds) = 2 => at.cmds[2].words = "git remote set-url origin"
                 /\ Len(at.gitReplies) = Len(at.cmds) - (IF rewriting THEN 1 ELSE 0)
                 /\ at.profile # "none" <=> at.pc \in {"checkAuth", "done"}
                 /\ at.notified # <<>> <=> at.pc = "done"
                 /\ Len(at.notified) <= 1
                 /\ \A k \in 1..Len(at.messages) : at.messages[k].kind = "info"
            ELSE /\ at.stored = 0
                 /\ at.cmds = <<>>
                 /\ at.profile = "none"

\* A login whose git remote get-url failed and which went on to checkAuth.
C26_Witness ==
    \E a \in AttemptIds :
        /\ attempts[a].outcome = "token"
        /\ attempts[a].pc = "done"
        /\ Len(attempts[a].gitReplies) = 1
        /\ ~attempts[a].gitReplies[1].ok
        /\ attempts[a].profile # "none"


\* C27: show-device-code is posted only after the device-code request succeeded
\* (a 2xx answer carrying a user code), once, and no token request is issued by an
\* attempt whose device code was not shown.
C27_CodeShownBeforePolling ==
    \A a \in AttemptIds :
        LET at == attempts[a]
        IN  /\ at.shown <= 1
            /\ at.requests >= 1 => at.shown = 1
            /\ at.shown = 1 =>
                    /\ at.init # <<>>
                    /\ at.init[1].kind = "json"
                    /\ at.init[1].status \in 200..299
                    /\ at.init[1].body.user_code # ""


\* C28: the checkAuth run that ends a login posts exactly one of show-setup and
\* show-dashboard: show-dashboard, with one run of refreshStats started, only if
\* the apiKey secret and the GitHub token secret were both present when read, and
\* show-setup, with no refresh, otherwise; so a login that got its token while no
\* apiKey is stored ends on the setup view.
C28_CheckAuthDecides ==
    \A a \in AttemptIds :
        LET at == attempts[a]
            started == {r \in RefreshIds : refreshes[r].owner = <<"checkAuth", a>>}
        IN  (at.outcome = "token" /\ at.pc = "done") =>
                /\ Len(at.notified) = 1
                /\ IF secrets.apiKey # "" /\ secrets.githubPat # ""
                   THEN /\ at.notified[1] = "show-dashboard"
                        /\ view = "dashboard"
                        /\ Cardinality(started) = 1
                   ELSE /\ at.notified[1] = "show-setup"
                        /\ view = "setup"
                        /\ started = {}

\* A login that got its token and stored it, with no apiKey stored.
C28_Witness ==
    \E a \in AttemptIds :
        /\ attempts[a].outcome = "token"
        /\ attempts[a].pc = "done"
        /\ secrets.githubPat = attempts[a].token
        /\ secrets.apiKey = ""
        /\ view = "setup"


\* C22: the cached profile summary belongs to the token held in the secret store:
\* currentUser is null, or it was fetched with the token that is stored now; it is
\* null whenever no token is stored.
C22_ProfileMatchesToken ==
    currentUser = NoUser \/ currentUser.token = secrets.githubPat


\* C24: a login attempt that was running when logout completed writes no token to
\* the secret store afterwards: what it had stored at the logout is all it stores.
C24_NoTokenAfterLogout ==
    \A a \in AttemptIds :
        attempts[a].loggedOutAt # NoSnapshot =>
            attempts[a].stored = attempts[a].loggedOutAt.stored


\* C30: saveSettings writes only the fields that are present and non-empty in the
\* record submitted: each of the two secrets and the three settings holds the
\* submitted value if one was given, and what it held before otherwise (a blank
\* token never erases the stored GitHub token); checkAuth runs after the writes, so
\* what it posts follows the secrets as saved.
C30_SaveWritesOnlyGivenFields ==
    lastSave # NoSave =>
        LET s == lastSave.settings
            before == lastSave.before
            after == lastSave.after
            Written(v, old, new) ==
                IF v.t = "string" /\ v.s # "" THEN new = v.s ELSE new = old
        IN  /\ Written(s.apiKey, before.secrets.apiKey, after.secrets.apiKey)
            /\ Written(s.pat, before.secrets.githubPat, after.secrets.githubPat)
            /\ Written(s.provider, before.config.apiProvider, after.config.apiProvider)
            /\ Written(s.baseUrl, before.config.apiBaseUrl, after.config.apiBaseUrl)
            /\ Written(s.modelName, before.config.modelName, after.config.modelName)
            /\ lastSave.posted = "show-dashboard" <=>
                    (after.secrets.apiKey # "" /\ after.secrets.githubPat # "")
            /\ config = after.config
            /\ secrets.apiKey = after.secrets.apiKey
            /\ secrets.githubPat \in {after.secrets.githubPat, ""}
            /\ view = "dashboard" => lastSave.posted = "show-dashboard"

\* A save with a blank token and no provider while a token and a provider are stored.
C30_Witness ==
    /\ lastSave # NoSave
    /\ lastSave.settings.pat = Text("")
    /\ lastSave.settings.provider = Undef
    /\ lastSave.before.secrets.githubPat # ""
    /\ lastSave.before.config.apiProvider # ""
    /\ secrets.githubPat = lastSave.before.secrets.githubPat


\* C29: every finished run of refreshStats has posted exactly one update-stats, and
\* a run that found no cached profile and no stored token posted the Guest default
\* as its user.
C29_OneUpdateStatsGuestDefault ==
    \A r \in RefreshIds :
        refreshes[r].pc = "done" =>
            /\ Len(refreshes[r].posted) = 1
            /\ (/\ refreshes[r].profile = "none"
                /\ refreshes[r].pat = ""
                /\ refreshes[r].posted[1].user.token = "") =>
                    refreshes[r].posted[1].user = GuestUser

====
